---- MODULE Spec2Model ----
(***************************************************************************)
(* http_utils.fetcher: the process-wide CircuitBreakerRegistry and the     *)
(* Fetcher retry loop (get / post) around a pybreaker circuit breaker.     *)
(*                                                                         *)
(* Threads construct a Fetcher (which registers or looks up the breaker of *)
(* its label) and then invoke get / post on it.  CircuitBreakerRegistry    *)
(* holds no lock, so get_circuit_breaker is modelled line by line; a       *)
(* pybreaker call holds the breaker's lock, so one call is one step.       *)
(***************************************************************************)
EXTENDS Integers, Sequences, FiniteSets, TLC

\* ------------------------------------------------------------------ bounds
MaxRetries == 3        \* max_retries ranges over 0..MaxRetries
MaxFailMax == 4        \* a configured fail_max ranges over 1..MaxFailMax
MaxCalls == 2          \* get/post invocations per Fetcher
MaxTime == 1           \* the clock ticks freely up to MaxTime (and while a sleep is pending)

\* --------------------------------------------------------- program constants
DefaultFailMax == 3
DefaultResetTimeout == 60
SyntheticStatus == 500

\* ------------------------------------------------------------------ inputs
Threads == {"t1", "t2"}
Labels == {"a", "b"}
StatusCodes == {200, 404, 500}
Absent == "absent"                 \* no value (None, or an attribute never set)
NoBreaker == 0                     \* no instance (label not in _registry / attribute unset)

\* A backoff strategy is named: "default" is Fetcher.default_backoff_strategy,
\* "custom" a caller-supplied function, "none" is None.

RECURSIVE Pow2(_)
Pow2(n) == IF n = 0 THEN 1 ELSE 2 * Pow2(n - 1)

default_backoff_strategy(attempt) == Pow2(attempt)

\* the delay of a named strategy; the caller-supplied one is linear here
Delay(strategy, attempt) ==
  IF strategy = "custom" THEN attempt ELSE default_backoff_strategy(attempt)

VARIABLES
  registry,    \* CircuitBreakerRegistry._registry: label -> instance id (NoBreaker: absent)
  breakers,    \* the pybreaker.CircuitBreaker instances ever created, by id
  now,         \* time.time()
  fetcher,     \* per thread: the Fetcher object it constructed
  frame,       \* per thread: position and locals of the running constructor / get / post
  events       \* per thread: logger and metrics calls, transport calls and sleeps of the current invocation

vars == <<registry, breakers, now, fetcher, frame, events>>

\* ------------------------------------------------------------------ events
Ev(kind, x, y, z) == <<kind, x, y, z>>
Kind(e) == e[1]

RECURSIVE CountKind(_, _)
CountKind(s, k) ==
  IF s = <<>> THEN 0
  ELSE (IF Kind(Head(s)) = k THEN 1 ELSE 0) + CountKind(Tail(s), k)

RECURSIVE Filter(_, _)
Filter(s, k) ==
  IF s = <<>> THEN <<>>
  ELSE IF Kind(Head(s)) = k THEN <<Head(s)>> \o Filter(Tail(s), k)
       ELSE Filter(Tail(s), k)

\* --------------------------------------------------- pybreaker.CircuitBreaker
\* CircuitBreaker(fail_max=..., reset_timeout=...): closed, no failures counted.
\* backoff is the attribute get_circuit_breaker sets (Absent: never set).
NewBreaker(fail_max, reset_timeout, backoff) ==
  [fail_max |-> fail_max, reset_timeout |-> reset_timeout, backoff |-> backoff,
   state |-> "closed", fail_counter |-> 0, opened_at |-> 0]

\* An open breaker rejects the call, without running it, until reset_timeout
\* has elapsed since it opened.
StillOpen(b, t) == b.state = "open" /\ t < b.opened_at + b.reset_timeout

\* What the transport does when it is called: it raises, or returns a response.
TransportOutcomes ==
  {[raises |-> TRUE, status |-> 0]} \cup {[raises |-> FALSE, status |-> c] : c \in StatusCodes}

\* mutant: a response with a 5xx status is counted as a failure of func
BreakerCallRaiseForStatus(b, t, out) ==
  IF StillOpen(b, t)
  THEN [breaker |-> b, kind |-> "breaker_error", called |-> FALSE, status |-> 0]
  ELSE LET trial == b.state # "closed" IN
       IF ~out.raises /\ out.status < 500
       THEN [breaker |-> [b EXCEPT !.state = "closed", !.fail_counter = 0],
             kind |-> "response", called |-> TRUE, status |-> out.status]
       ELSE IF trial \/ b.fail_counter + 1 >= b.fail_max
            THEN [breaker |-> [b EXCEPT !.state = "open",
                                        !.fail_counter = b.fail_counter + 1,
                                        !.opened_at = t],
                  kind |-> "breaker_error", called |-> TRUE, status |-> 0]
            ELSE [breaker |-> [b EXCEPT !.fail_counter = b.fail_counter + 1],
                  kind |-> "error", called |-> TRUE, status |-> 0]

\* CircuitBreaker.call(func): the breaker after the call and what the call
\* gave the caller.  kind is "response" (func's result), "error" (func's own
\* exception, re-raised) or "breaker_error" (CircuitBreakerError); called says
\* whether func ran.  A failure that reaches fail_max, and any failure of the
\* half-open trial call, opens the breaker and raises CircuitBreakerError in
\* place of func's exception.
BreakerCall(b, t, out) ==
  IF StillOpen(b, t)
  THEN [breaker |-> b, kind |-> "breaker_error", called |-> FALSE, status |-> 0]
  ELSE LET trial == b.state # "closed" IN
       IF ~out.raises
       THEN [breaker |-> [b EXCEPT !.state = "closed", !.fail_counter = 0],
             kind |-> "response", called |-> TRUE, status |-> out.status]
       ELSE IF trial \/ b.fail_counter + 1 >= b.fail_max
            THEN [breaker |-> [b EXCEPT !.state = "open",
                                        !.fail_counter = b.fail_counter + 1,
                                        !.opened_at = t],
                  kind |-> "breaker_error", called |-> TRUE, status |-> 0]
            ELSE [breaker |-> [b EXCEPT !.fail_counter = b.fail_counter + 1],
                  kind |-> "error", called |-> TRUE, status |-> 0]

\* ------------------------------------------------------------------ state
\* circuit_config as the caller passes it: the keys it holds and their values.
CircuitConfig(keys, fail_max, reset_timeout, backoff_strategy) ==
  [keys |-> keys, fail_max |-> fail_max, reset_timeout |-> reset_timeout,
   backoff_strategy |-> backoff_strategy]

NoConfig == CircuitConfig({}, 0, 0, Absent)

\* Fetcher.__init__, lines 45-52: the defaults, updated with circuit_config.
default_circuit_config(cc) ==
  [fail_max |-> IF "fail_max" \in cc.keys THEN cc.fail_max ELSE DefaultFailMax,
   reset_timeout |-> IF "reset_timeout" \in cc.keys THEN cc.reset_timeout
                     ELSE DefaultResetTimeout,
   backoff_strategy |-> IF "backoff_strategy" \in cc.keys THEN cc.backoff_strategy
                        ELSE "default"]

NoFetcher == [label |-> Absent, max_retries |-> 0, circuit_breaker |-> NoBreaker]

IdleFrame == [pc |-> "idle", config |-> default_circuit_config(NoConfig),
              breaker |-> NoBreaker, method |-> Absent, attempt |-> 0,
              start_time |-> 0, wake_at |-> 0, outcome |-> Absent,
              response |-> 0, error |-> 0, calls |-> 0, entry_fresh |-> FALSE]

Init ==
  /\ registry = [l \in Labels |-> NoBreaker]
  /\ breakers = <<>>
  /\ now = 0
  /\ fetcher = [t \in Threads |-> NoFetcher]
  /\ frame = [t \in Threads |-> IdleFrame]
  /\ events = [t \in Threads |-> <<>>]

\* ------------------------------------------------- Fetcher.__init__ (31-59)
\* Lines 39-53: the fields, and the effective circuit configuration; the
\* constructor then calls get_circuit_breaker (line 54).
NewFetcher(t, label, cc, max_retries) ==
  /\ frame[t].pc = "idle"
  /\ fetcher' = [fetcher EXCEPT ![t] = [label |-> label, max_retries |-> max_retries,
                                        circuit_breaker |-> NoBreaker]]
  /\ frame' = [frame EXCEPT ![t].pc = "gcb_check",
                            ![t].config = default_circuit_config(cc)]
  /\ UNCHANGED <<registry, breakers, now, events>>

\* --------------------- CircuitBreakerRegistry.get_circuit_breaker (13-27)
\* mutant: the membership test always finds the label missing
LabelMissingAlways(label) == TRUE

\* Line 20: the membership test.
LabelMissing(label) == registry[label] = NoBreaker

GcbCheck(t) ==
  /\ frame[t].pc = "gcb_check"
  /\ frame' = [frame EXCEPT ![t].pc = IF LabelMissing(fetcher[t].label)
                                      THEN "gcb_create" ELSE "gcb_return"]
  /\ UNCHANGED <<registry, breakers, now, fetcher, events>>

\* Lines 24-25: the strategy is attached only when it is truthy.
AttachedBackoff(backoff_strategy) ==
  IF backoff_strategy # "none" THEN backoff_strategy ELSE Absent

\* Lines 21-25: a new instance, held in the local `breaker`.
GcbCreate(t) ==
  /\ frame[t].pc = "gcb_create"
  /\ breakers' = Append(breakers,
                        NewBreaker(frame[t].config.fail_max,
                                   frame[t].config.reset_timeout,
                                   AttachedBackoff(frame[t].config.backoff_strategy)))
  /\ frame' = [frame EXCEPT ![t].pc = "gcb_store", ![t].breaker = Len(breakers) + 1]
  /\ UNCHANGED <<registry, now, fetcher, events>>

\* mutant: the registry keeps one instance for all labels
GcbStoreOneKey(t) ==
  /\ frame[t].pc = "gcb_store"
  /\ registry' = [l \in Labels |-> frame[t].breaker]
  /\ frame' = [frame EXCEPT ![t].pc = "gcb_return"]
  /\ UNCHANGED <<breakers, now, fetcher, events>>

\* Line 26.
GcbStore(t) ==
  /\ frame[t].pc = "gcb_store"
  /\ registry' = [registry EXCEPT ![fetcher[t].label] = frame[t].breaker]
  /\ frame' = [frame EXCEPT ![t].pc = "gcb_return"]
  /\ UNCHANGED <<breakers, now, fetcher, events>>

\* Line 27, and the assignment of line 54 that receives it.
GcbReturn(t) ==
  /\ frame[t].pc = "gcb_return"
  /\ fetcher' = [fetcher EXCEPT ![t].circuit_breaker = registry[fetcher[t].label]]
  /\ frame' = [frame EXCEPT ![t].pc = "ready"]
  /\ UNCHANGED <<registry, breakers, now, events>>

\* ------------------------------------------- the retry loop of get and post
\* mutant: the loop stops one attempt short
LoopContinuesShort(t) == frame[t].attempt < fetcher[t].max_retries - 1

\* Lines 71 / 119: while attempt < self.max_retries.
LoopContinues(t) == frame[t].attempt < fetcher[t].max_retries

\* mutant: track_retry is never sent
RetryEventsNone(m, k) == <<>>

\* mutant: track_retry for the first attempt too
RetryEventsEveryAttempt(m, k) == IF k >= 1 THEN <<Ev("track_retry", m, k, 0)>> ELSE <<>>

\* Lines 74-75 / 122-123: track_retry for every attempt after the first.
RetryEvents(m, k) == IF k > 1 THEN <<Ev("track_retry", m, k, 0)>> ELSE <<>>

\* Lines 77 / 125: time.time() - start_time.
ResponseTime(t) == now - frame[t].start_time

\* mutant: the attempt before the last already raises
FinalAttemptEarly(t, k) == k >= fetcher[t].max_retries - 1

\* mutant: no attempt is taken to be the last, a failed attempt always sleeps
FinalAttemptNever(t, k) == k > fetcher[t].max_retries

\* Lines 108 / 156: the attempt that raises instead of sleeping.
FinalAttempt(t, k) == k = fetcher[t].max_retries

\* mutant: the first attempt's exception is raised instead of the last one's
RaisedErrorFirst(k) == 1

\* Lines 109 / 157: raise e, the exception of this attempt, named by its attempt.
RaisedError(k) == k

\* Lines 110 / 158: the delay slept after attempt k.
LoopDelay(t, k) == default_backoff_strategy(k)

\* A breaker as CircuitBreaker() leaves it: closed, no failure counted.
Fresh(b) == b.state = "closed" /\ b.fail_counter = 0

\* ------------------------------------------------------- Fetcher.get (64-110)
\* mutant: the attempt counter is not reset on entry
GetStartKeepsCounter(t) ==
  /\ frame[t].pc \in {"ready", "done"}
  /\ frame[t].calls < MaxCalls
  /\ frame' = [frame EXCEPT ![t].pc = "get_loop", ![t].method = "GET",
                            ![t].start_time = now,
                            ![t].outcome = Absent, ![t].response = 0,
                            ![t].error = 0, ![t].calls = frame[t].calls + 1,
                            ![t].entry_fresh = Fresh(breakers[fetcher[t].circuit_breaker])]
  /\ events' = [events EXCEPT ![t] = <<Ev("info_fetch", "GET", now, 0)>>]
  /\ UNCHANGED <<registry, breakers, now, fetcher>>

\* Lines 65-69: the log, the start time and the attempt counter.  entry_fresh
\* records whether the breaker was closed with no failure counted on entry.
GetStart(t) ==
  /\ frame[t].pc \in {"ready", "done"}
  /\ frame[t].calls < MaxCalls
  /\ frame' = [frame EXCEPT ![t].pc = "get_loop", ![t].method = "GET",
                            ![t].start_time = now, ![t].attempt = 0,
                            ![t].outcome = Absent, ![t].response = 0,
                            ![t].error = 0, ![t].calls = frame[t].calls + 1,
                            ![t].entry_fresh = Fresh(breakers[fetcher[t].circuit_breaker])]
  /\ events' = [events EXCEPT ![t] = <<Ev("info_fetch", "GET", now, 0)>>]
  /\ UNCHANGED <<registry, breakers, now, fetcher>>

\* mutant: a 5xx response is treated as a failed attempt and retried
GetOnResponseRetry5xx(t, k, status, pre) ==
  IF status >= 500
  THEN /\ events' = [events EXCEPT ![t] = @ \o pre \o
                       <<Ev("error_attempt", "GET", k, 0)>>]
       /\ frame' = [frame EXCEPT ![t].pc = "get_loop", ![t].attempt = k]
  ELSE /\ events' = [events EXCEPT ![t] = @ \o pre \o
                       <<Ev("info_response", "GET", status, 0),
                         Ev("track_request", "GET", status, ResponseTime(t))>>]
       /\ frame' = [frame EXCEPT ![t].pc = "done", ![t].attempt = k,
                                 ![t].outcome = "response", ![t].response = status]

\* Lines 77-87: the response is logged, measured and returned, whatever its status.
GetOnResponse(t, k, status, pre) ==
  /\ events' = [events EXCEPT ![t] = @ \o pre \o
                  <<Ev("info_response", "GET", status, 0),
                    Ev("track_request", "GET", status, ResponseTime(t))>>]
  /\ frame' = [frame EXCEPT ![t].pc = "done", ![t].attempt = k,
                            ![t].outcome = "response", ![t].response = status]

\* mutant: the break is missing, the loop goes on after a rejection
GetOnBreakerErrorNoBreak(t, k, pre) ==
  /\ events' = [events EXCEPT ![t] = @ \o pre \o
                  <<Ev("error_open", "GET", k, 0),
                    Ev("track_request", "GET", SyntheticStatus, 0)>>]
  /\ frame' = [frame EXCEPT ![t].pc = "get_loop", ![t].attempt = k]

\* Lines 88-98: CircuitBreakerError is logged, counted as a 500 and ends the loop;
\* the method then returns None.
GetOnBreakerError(t, k, pre) ==
  /\ events' = [events EXCEPT ![t] = @ \o pre \o
                  <<Ev("error_open", "GET", k, 0),
                    Ev("track_request", "GET", SyntheticStatus, 0)>>]
  /\ frame' = [frame EXCEPT ![t].pc = "done", ![t].attempt = k, ![t].outcome = "none"]

\* mutant: a failed attempt is counted as a request with status 500
GetOnErrorTracksFailure(t, k, pre) ==
  IF FinalAttempt(t, k)
  THEN /\ events' = [events EXCEPT ![t] = @ \o pre \o
                       <<Ev("error_attempt", "GET", k, 0),
                         Ev("track_request", "GET", SyntheticStatus, 0)>>]
       /\ frame' = [frame EXCEPT ![t].pc = "done", ![t].attempt = k,
                                 ![t].outcome = "raise", ![t].error = RaisedError(k)]
  ELSE /\ events' = [events EXCEPT ![t] = @ \o pre \o
                       <<Ev("error_attempt", "GET", k, 0),
                         Ev("track_request", "GET", SyntheticStatus, 0),
                         Ev("sleep", "GET", LoopDelay(t, k), k)>>]
       /\ frame' = [frame EXCEPT ![t].pc = "get_sleep", ![t].attempt = k,
                                 ![t].wake_at = now + LoopDelay(t, k)]

\* Lines 99-110: any other exception is logged; the last attempt re-raises it, an
\* earlier one sleeps.
GetOnError(t, k, pre) ==
  IF FinalAttempt(t, k)
  THEN /\ events' = [events EXCEPT ![t] = @ \o pre \o
                       <<Ev("error_attempt", "GET", k, 0)>>]
       /\ frame' = [frame EXCEPT ![t].pc = "done", ![t].attempt = k,
                                 ![t].outcome = "raise", ![t].error = RaisedError(k)]
  ELSE /\ events' = [events EXCEPT ![t] = @ \o pre \o
                       <<Ev("error_attempt", "GET", k, 0),
                         Ev("sleep", "GET", LoopDelay(t, k), k)>>]
       /\ frame' = [frame EXCEPT ![t].pc = "get_sleep", ![t].attempt = k,
                                 ![t].wake_at = now + LoopDelay(t, k)]

\* mutant: the transport is also called directly, outside the breaker
GetAttemptCallsTransportTwice(t, out) ==
  /\ frame[t].pc = "get_loop"
  /\ IF ~LoopContinues(t)
     THEN /\ frame' = [frame EXCEPT ![t].pc = "done", ![t].outcome = "none"]
          /\ UNCHANGED <<registry, breakers, now, fetcher, events>>
     ELSE LET k == frame[t].attempt + 1
              cb == fetcher[t].circuit_breaker
              r == BreakerCall(breakers[cb], now, out)
              pre == RetryEvents("GET", k)
                     \o <<Ev("transport", "GET", k, IF out.raises THEN 1 ELSE 0)>>
                     \o <<Ev("call", "GET", k, 0)>>
                     \o (IF r.called
                         THEN <<Ev("transport", "GET", k, IF out.raises THEN 1 ELSE 0)>>
                         ELSE <<>>)
          IN /\ breakers' = [breakers EXCEPT ![cb] = r.breaker]
             /\ CASE r.kind = "response" -> GetOnResponse(t, k, r.status, pre)
                  [] r.kind = "breaker_error" -> GetOnBreakerError(t, k, pre)
                  [] r.kind = "error" -> GetOnError(t, k, pre)
             /\ UNCHANGED <<registry, now, fetcher>>

\* Lines 71-76: one evaluation of the while condition and, when it holds, one
\* iteration: the retry metric, the breaker's call of the transport and the
\* handler of what it gave.  `out` is what the transport does if it is called.
GetAttempt(t, out) ==
  /\ frame[t].pc = "get_loop"
  /\ IF ~LoopContinues(t)
     THEN /\ frame' = [frame EXCEPT ![t].pc = "done", ![t].outcome = "none"]
          /\ UNCHANGED <<registry, breakers, now, fetcher, events>>
     ELSE LET k == frame[t].attempt + 1
              cb == fetcher[t].circuit_breaker
              r == BreakerCall(breakers[cb], now, out)
              pre == RetryEvents("GET", k) \o <<Ev("call", "GET", k, 0)>>
                     \o (IF r.called
                         THEN <<Ev("transport", "GET", k, IF out.raises THEN 1 ELSE 0)>>
                         ELSE <<>>)
          IN /\ breakers' = [breakers EXCEPT ![cb] = r.breaker]
             /\ CASE r.kind = "response" -> GetOnResponse(t, k, r.status, pre)
                  [] r.kind = "breaker_error" -> GetOnBreakerError(t, k, pre)
                  [] r.kind = "error" -> GetOnError(t, k, pre)
             /\ UNCHANGED <<registry, now, fetcher>>

\* mutant: the sleep returns at once
GetWakeEarly(t) ==
  /\ frame[t].pc = "get_sleep"
  /\ frame' = [frame EXCEPT ![t].pc = "get_loop"]
  /\ UNCHANGED <<registry, breakers, now, fetcher, events>>

\* time.sleep (line 110) returns once the delay has passed; the loop goes on.
GetWake(t) ==
  /\ frame[t].pc = "get_sleep"
  /\ now >= frame[t].wake_at
  /\ frame' = [frame EXCEPT ![t].pc = "get_loop"]
  /\ UNCHANGED <<registry, breakers, now, fetcher, events>>

\* ------------------------------------------------------- Fetcher.post (112-158)
\* Lines 113-117: the log, the start time and the attempt counter.  entry_fresh
\* records whether the breaker was closed with no failure counted on entry.
PostStart(t) ==
  /\ frame[t].pc \in {"ready", "done"}
  /\ frame[t].calls < MaxCalls
  /\ frame' = [frame EXCEPT ![t].pc = "post_loop", ![t].method = "POST",
                            ![t].start_time = now, ![t].attempt = 0,
                            ![t].outcome = Absent, ![t].response = 0,
                            ![t].error = 0, ![t].calls = frame[t].calls + 1,
                            ![t].entry_fresh = Fresh(breakers[fetcher[t].circuit_breaker])]
  /\ events' = [events EXCEPT ![t] = <<Ev("info_fetch", "POST", now, 0)>>]
  /\ UNCHANGED <<registry, breakers, now, fetcher>>

\* Lines 125-135: the response is logged, measured and returned, whatever its status.
PostOnResponse(t, k, status, pre) ==
  /\ events' = [events EXCEPT ![t] = @ \o pre \o
                  <<Ev("info_response", "POST", status, 0),
                    Ev("track_request", "POST", status, ResponseTime(t))>>]
  /\ frame' = [frame EXCEPT ![t].pc = "done", ![t].attempt = k,
                            ![t].outcome = "response", ![t].response = status]

\* mutant: post does not count a rejection as a request
PostOnBreakerErrorNoMetric(t, k, pre) ==
  /\ events' = [events EXCEPT ![t] = @ \o pre \o <<Ev("error_open", "POST", k, 0)>>]
  /\ frame' = [frame EXCEPT ![t].pc = "done", ![t].attempt = k, ![t].outcome = "none"]

\* Lines 136-146: CircuitBreakerError is logged, counted as a 500 and ends the loop;
\* the method then returns None.
PostOnBreakerError(t, k, pre) ==
  /\ events' = [events EXCEPT ![t] = @ \o pre \o
                  <<Ev("error_open", "POST", k, 0),
                    Ev("track_request", "POST", SyntheticStatus, 0)>>]
  /\ frame' = [frame EXCEPT ![t].pc = "done", ![t].attempt = k, ![t].outcome = "none"]

\* Lines 147-158: any other exception is logged; the last attempt re-raises it, an
\* earlier one sleeps.
PostOnError(t, k, pre) ==
  IF FinalAttempt(t, k)
  THEN /\ events' = [events EXCEPT ![t] = @ \o pre \o
                       <<Ev("error_attempt", "POST", k, 0)>>]
       /\ frame' = [frame EXCEPT ![t].pc = "done", ![t].attempt = k,
                                 ![t].outcome = "raise", ![t].error = RaisedError(k)]
  ELSE /\ events' = [events EXCEPT ![t] = @ \o pre \o
                       <<Ev("error_attempt", "POST", k, 0),
                         Ev("sleep", "POST", LoopDelay(t, k), k)>>]
       /\ frame' = [frame EXCEPT ![t].pc = "post_sleep", ![t].attempt = k,
                                 ![t].wake_at = now + LoopDelay(t, k)]

\* Lines 119-124: one evaluation of the while condition and, when it holds, one
\* iteration: the retry metric, the breaker's call of the transport and the
\* handler of what it gave.  `out` is what the transport does if it is called.
PostAttempt(t, out) ==
  /\ frame[t].pc = "post_loop"
  /\ IF ~LoopContinues(t)
     THEN /\ frame' = [frame EXCEPT ![t].pc = "done", ![t].outcome = "none"]
          /\ UNCHANGED <<registry, breakers, now, fetcher, events>>
     ELSE LET k == frame[t].attempt + 1
              cb == fetcher[t].circuit_breaker
              r == BreakerCall(breakers[cb], now, out)
              pre == RetryEvents("POST", k) \o <<Ev("call", "POST", k, 0)>>
                     \o (IF r.called
                         THEN <<Ev("transport", "POST", k, IF out.raises THEN 1 ELSE 0)>>
                         ELSE <<>>)
          IN /\ breakers' = [breakers EXCEPT ![cb] = r.breaker]
             /\ CASE r.kind = "response" -> PostOnResponse(t, k, r.status, pre)
                  [] r.kind = "breaker_error" -> PostOnBreakerError(t, k, pre)
                  [] r.kind = "error" -> PostOnError(t, k, pre)
             /\ UNCHANGED <<registry, now, fetcher>>

\* time.sleep (line 158) returns once the delay has passed; the loop goes on.
PostWake(t) ==
  /\ frame[t].pc = "post_sleep"
  /\ now >= frame[t].wake_at
  /\ frame' = [frame EXCEPT ![t].pc = "post_loop"]
  /\ UNCHANGED <<registry, breakers, now, fetcher, events>>

\* ------------------------------------------------------------------ time
Sleeping(t) == frame[t].pc \in {"get_sleep", "post_sleep"} /\ frame[t].wake_at > now

Tick ==
  /\ now < MaxTime \/ \E t \in Threads : Sleeping(t)
  /\ now' = now + 1
  /\ UNCHANGED <<registry, breakers, fetcher, frame, events>>

\* ------------------------------------------------------------------ inputs
\* One caller: every fail_max and max_retries within the bounds, with and
\* without a reset_timeout that elapses and a supplied backoff strategy.
CircuitConfigs ==
  {NoConfig}
  \cup {CircuitConfig({"fail_max"}, n, 0, Absent) : n \in 1..MaxFailMax}
  \cup {CircuitConfig({"fail_max", "reset_timeout", "backoff_strategy"}, n, 1, b) :
          n \in 1..MaxFailMax, b \in {"custom", "none"}}

\* Concurrent callers: two configurations that differ in every key, and a
\* transport that raises or answers 200.
SharedConfigs ==
  {CircuitConfig({"fail_max"}, 2, 0, Absent),
   CircuitConfig({"fail_max", "reset_timeout", "backoff_strategy"}, 1, 1, "custom")}

SharedOutcomes == {[raises |-> TRUE, status |-> 0], [raises |-> FALSE, status |-> 200]}

\* Two threads, each constructing a Fetcher (max_retries = 2) and invoking it once.
Next ==
  \/ \E t \in Threads, l \in Labels, cc \in SharedConfigs : NewFetcher(t, l, cc, 2)
  \/ \E t \in Threads : GcbCheck(t)
  \/ \E t \in Threads : GcbCreate(t)
  \/ \E t \in Threads : GcbStore(t)
  \/ \E t \in Threads : GcbReturn(t)
  \/ \E t \in Threads : frame[t].calls = 0 /\ GetStart(t)
  \/ \E t \in Threads, out \in SharedOutcomes : GetAttempt(t, out)
  \/ \E t \in Threads : GetWake(t)
  \/ \E t \in Threads : frame[t].calls = 0 /\ PostStart(t)
  \/ \E t \in Threads, out \in SharedOutcomes : PostAttempt(t, out)
  \/ \E t \in Threads : PostWake(t)
  \/ Tick

\* Every interleaving of the threads' constructors and invocations.
Spec == Init /\ [][Next]_vars

NextSeq ==
  \/ \E cc \in CircuitConfigs, n \in 0..MaxRetries : NewFetcher("t1", "a", cc, n)
  \/ GcbCheck("t1")
  \/ GcbCreate("t1")
  \/ GcbStore("t1")
  \/ GcbReturn("t1")
  \/ GetStart("t1")
  \/ \E out \in TransportOutcomes : GetAttempt("t1", out)
  \/ GetWake("t1")
  \/ PostStart("t1")
  \/ \E out \in TransportOutcomes : PostAttempt("t1", out)
  \/ PostWake("t1")
  \/ Tick

\* One caller: a Fetcher of any configuration, invoked repeatedly.
SpecSeq == Init /\ [][NextSeq]_vars

\* SpecSeq with every transport call and every sleep coming to an end: a
\* started loop iteration is carried out (requests.get / requests.post
\* return or raise), the clock advances, and time.sleep returns once its
\* delay has passed.  Nothing obliges the caller to start an invocation.
SpecSeqFair ==
  /\ SpecSeq
  /\ WF_vars(\E out \in TransportOutcomes : GetAttempt("t1", out))
  /\ WF_vars(\E out \in TransportOutcomes : PostAttempt("t1", out))
  /\ WF_vars(GetWake("t1"))
  /\ WF_vars(PostWake("t1"))
  /\ WF_vars(Tick)

\* The transport answers every request with status 500 and never raises.
ServerError == [raises |-> FALSE, status |-> 500]

Next500 ==
  \/ \E cc \in CircuitConfigs, n \in 0..MaxRetries : NewFetcher("t1", "a", cc, n)
  \/ GcbCheck("t1")
  \/ GcbCreate("t1")
  \/ GcbStore("t1")
  \/ GcbReturn("t1")
  \/ GetStart("t1")
  \/ GetAttempt("t1", ServerError)
  \/ PostStart("t1")
  \/ PostAttempt("t1", ServerError)
  \/ Tick

\* One caller invoking get and post repeatedly against a service that always
\* answers 500.  No attempt fails, so no sleep is ever started.
Spec500 == Init /\ [][Next500]_vars

\* get and post side by side: t1 calls get through label a, t2 calls post
\* through label b, both Fetchers built with the same max_retries and the
\* same circuit configuration, so that both breakers start in the same state.
\* t1 leads by one step and t2 repeats it: it starts when t1 has started, its
\* transport does in attempt k what t1's transport did in attempt k, and the
\* clock stands still until t2 has caught up.
PcClass(pc) ==
  CASE pc \in {"get_loop", "post_loop"} -> "loop"
    [] pc \in {"get_sleep", "post_sleep"} -> "sleep"
    [] OTHER -> pc

\* how far a thread has come: the invocation, the place in it, the attempt
Pos(t) == <<frame[t].calls, PcClass(frame[t].pc), frame[t].attempt>>

InStep == Pos("t1") = Pos("t2")

\* t1 has made a step of an invocation that t2 has yet to repeat
Behind == ~InStep /\ frame["t1"].calls > 0

\* what t's transport did in attempt k: nothing to repeat if it was not called
OutcomeAt(t, k) ==
  LET T == {i \in 1..Len(events[t]) :
              Kind(events[t][i]) = "transport" /\ events[t][i][3] = k} IN
  IF T = {} THEN TransportOutcomes
  ELSE LET i == CHOOSE j \in T : TRUE IN
       IF events[t][i][4] = 1 THEN {[raises |-> TRUE, status |-> 0]}
       ELSE {o \in TransportOutcomes :
               /\ ~o.raises
               /\ i < Len(events[t])
               /\ Kind(events[t][i + 1]) = "info_response"
               /\ o.status = events[t][i + 1][3]}

NextPair ==
  \/ \E cc \in CircuitConfigs, n \in 0..MaxRetries : NewFetcher("t1", "a", cc, n)
  \/ \E cc \in CircuitConfigs :
       /\ frame["t1"].pc # "idle"
       /\ default_circuit_config(cc) = frame["t1"].config
       /\ NewFetcher("t2", "b", cc, fetcher["t1"].max_retries)
  \/ \E t \in Threads : GcbCheck(t)
  \/ \E t \in Threads : GcbCreate(t)
  \/ \E t \in Threads : GcbStore(t)
  \/ \E t \in Threads : GcbReturn(t)
  \/ InStep /\ GetStart("t1")
  \/ InStep /\ \E out \in TransportOutcomes : GetAttempt("t1", out)
  \/ InStep /\ GetWake("t1")
  \/ Behind /\ PostStart("t2")
  \/ Behind /\ \E out \in OutcomeAt("t1", frame["t2"].attempt + 1) : PostAttempt("t2", out)
  \/ Behind /\ PostWake("t2")
  \/ InStep /\ Tick

SpecPair == Init /\ [][NextPair]_vars

\* =================================================================== claims
\* ---------------------------------------------- what an invocation has done
Done(t) == frame[t].pc = "done"
Constructed(t) == fetcher[t].circuit_breaker # NoBreaker
Breaker(t) == breakers[fetcher[t].circuit_breaker]
Attempts(t) == CountKind(events[t], "call")
SleepEvents(t) == Filter(events[t], "sleep")
SleepDurations(t) == [i \in 1..Len(SleepEvents(t)) |-> SleepEvents(t)[i][3]]
Requests(t) == Filter(events[t], "track_request")
\* 2^1, ..., 2^n
PowersOfTwo(n) == [i \in 1..n |-> 2 ^ i]
\* every attempt made so far reached the transport, and the transport raised
TransportAlwaysRaised(t) ==
  /\ CountKind(events[t], "transport") = Attempts(t)
  /\ \A i \in 1..Len(events[t]) :
       Kind(events[t][i]) = "transport" => events[t][i][4] = 1
Last(s) == s[Len(s)]

\* C1 (as claimed): every label has at most one breaker instance ever created
\* for it, and all Fetchers of one label hold the same instance, however the
\* get_circuit_breaker calls interleave.
C1_OneInstancePerLabel ==
  \A t, u \in Threads :
    (t # u /\ fetcher[t].label # Absent /\ fetcher[t].label = fetcher[u].label) =>
      /\ ~(frame[t].breaker # NoBreaker /\ frame[u].breaker # NoBreaker)
      /\ (Constructed(t) /\ Constructed(u)) =>
            fetcher[t].circuit_breaker = fetcher[u].circuit_breaker

\* The outcome C2 describes: max_retries attempts, the sleeps 2^1 .. 2^(N-1)
\* between them, and the last attempt's error raised.
ExhaustedRetries(t) ==
  /\ frame[t].outcome = "raise"
  /\ Attempts(t) = fetcher[t].max_retries
  /\ SleepDurations(t) = PowersOfTwo(fetcher[t].max_retries - 1)
  /\ frame[t].error = fetcher[t].max_retries

\* C2 (as claimed): for every max_retries >= 1 and every fail_max >= 1, an
\* invocation entered with a fresh closed breaker whose transport raised on
\* every attempt ends with ExhaustedRetries.
C2_AlwaysFailingRaises ==
  \A t \in Threads :
    (Done(t) /\ frame[t].entry_fresh /\ fetcher[t].max_retries >= 1
       /\ TransportAlwaysRaised(t)) => ExhaustedRetries(t)

\* C2 (amended): the same, for the breakers whose fail_max exceeds max_retries
\* (a breaker with fail_max <= max_retries opens within the invocation).
C2_AlwaysFailingRaisesBelowFailMax ==
  \A t \in Threads :
    (Done(t) /\ frame[t].entry_fresh /\ fetcher[t].max_retries >= 1
       /\ Breaker(t).fail_max > fetcher[t].max_retries
       /\ TransportAlwaysRaised(t)) => ExhaustedRetries(t)

C2_Witness ==
  \E t \in Threads :
    /\ Done(t) /\ frame[t].entry_fresh /\ fetcher[t].max_retries >= 2
    /\ Breaker(t).fail_max > fetcher[t].max_retries
    /\ TransportAlwaysRaised(t) /\ frame[t].outcome = "raise"
    /\ Len(SleepEvents(t)) = fetcher[t].max_retries - 1

RECURSIVE Sum(_)
Sum(s) == IF s = <<>> THEN 0 ELSE Head(s) + Sum(Tail(s))
RetryEventsOf(t) == Filter(events[t], "track_retry")
TransportEvents(t) == Filter(events[t], "transport")

\* C3: an invocation that returns a response on attempt K made K attempts,
\* the first K-1 of which raised, slept 2^1 .. 2^(K-1) between them, logged
\* one response, sent one track_request(method, status, elapsed) and one
\* track_retry for each of the attempts 2 .. K.
C3_SuccessOnAttemptK ==
  \A t \in Threads :
    (Done(t) /\ frame[t].outcome = "response") =>
      LET K == Attempts(t) IN
      /\ K \in 1..fetcher[t].max_retries
      /\ frame[t].attempt = K
      /\ Len(TransportEvents(t)) = K
      /\ \A i \in 1..K : TransportEvents(t)[i][4] = (IF i < K THEN 1 ELSE 0)
      /\ CountKind(events[t], "error_attempt") = K - 1
      /\ SleepDurations(t) = PowersOfTwo(K - 1)
      /\ CountKind(events[t], "info_response") = 1
      /\ Len(Requests(t)) = 1
      /\ Requests(t)[1][2] = frame[t].method
      /\ Requests(t)[1][3] = frame[t].response
      /\ Requests(t)[1][4] >= Sum(SleepDurations(t))
      /\ Requests(t)[1][4] <= now - frame[t].start_time
      /\ Len(RetryEventsOf(t)) = K - 1
      /\ \A i \in 1..(K - 1) : RetryEventsOf(t)[i][3] = i + 1

C3_Witness ==
  \E t \in Threads :
    /\ Done(t) /\ frame[t].outcome = "response" /\ frame[t].response = 200
    /\ Attempts(t) = 3 /\ fetcher[t].max_retries = 3 /\ frame[t].method = "GET"

\* C4: once the breaker has rejected attempt k of an invocation, the
\* invocation is over: it returned None without raising, attempt k was the
\* last, the rejection was logged once and counted once as
\* track_request(method, 500, 0), and these are its last two events (no
\* sleep and no attempt follow).
C4_BreakerOpenEndsInvocation ==
  \A t \in Threads :
    CountKind(events[t], "error_open") > 0 =>
      LET n == Len(events[t])
          k == events[t][n - 1][3] IN
      /\ Done(t) /\ frame[t].outcome = "none" /\ frame[t].error = 0
      /\ CountKind(events[t], "error_open") = 1
      /\ events[t][n - 1] = Ev("error_open", frame[t].method, k, 0)
      /\ events[t][n] = Ev("track_request", frame[t].method, 500, 0)
      /\ Len(Requests(t)) = 1
      /\ Attempts(t) = k /\ frame[t].attempt = k
      /\ Len(SleepEvents(t)) = k - 1

\* attempt 2 rejected by a breaker that another Fetcher's failure opened
C4_Witness ==
  \E t \in Threads :
    /\ Done(t) /\ CountKind(events[t], "error_open") = 1
    /\ Attempts(t) = 2 /\ Len(TransportEvents(t)) = 1

\* C5 (as claimed): a Fetcher constructed with a custom backoff_strategy
\* sleeps that strategy's delay after attempt k.
C5_LoopUsesSuppliedBackoff ==
  \A t \in Threads :
    frame[t].config.backoff_strategy = "custom" =>
      \A i \in 1..Len(SleepEvents(t)) :
        SleepEvents(t)[i][3] = Delay("custom", SleepEvents(t)[i][4])

\* What C6 says of an invocation that ended through the breaker-open path.
EndedByBreaker(t) ==
  /\ CountKind(events[t], "error_open") = 1
  /\ \E i \in 1..Len(events[t]) :
       events[t][i] = Ev("track_request", frame[t].method, 500, 0)

\* C6 (as claimed): for every max_retries, an invocation that returned no
\* response and raised nothing ended through the breaker-open path.
C6_NoneMeansBreakerOpen ==
  \A t \in Threads : (Done(t) /\ frame[t].outcome = "none") => EndedByBreaker(t)

\* C6 (amended): the same for every max_retries >= 1 (with max_retries <= 0
\* the loop body never runs and the invocation returns None at once).
C6_NoneMeansBreakerOpenPositiveRetries ==
  \A t \in Threads :
    (Done(t) /\ frame[t].outcome = "none" /\ fetcher[t].max_retries >= 1) =>
      EndedByBreaker(t)

C6_Witness ==
  \E t \in Threads :
    /\ Done(t) /\ frame[t].outcome = "none" /\ fetcher[t].max_retries >= 1
    /\ EndedByBreaker(t)

\* The configuration an instance was created with never changes.
SameConfig(b, c) ==
  /\ b.fail_max = c.fail_max /\ b.reset_timeout = c.reset_timeout
  /\ b.backoff = c.backoff

C8_SharedFailureState ==
  \A t, u \in Threads :
    ( /\ Constructed(t) /\ Constructed(u)
      /\ fetcher[t].label = fetcher[u].label
      /\ StillOpen(Breaker(t), now) ) => StillOpen(Breaker(u), now)

\* C9: once the transport has returned a response, the invocation is over
\* and has returned it, whatever its status: the response was logged and
\* counted with its own status as the last two events (no retry, sleep or
\* error follows), and nothing was raised.
C9_AnyStatusIsReturned ==
  \A t \in Threads :
    (\E i \in 1..Len(TransportEvents(t)) : TransportEvents(t)[i][4] = 0) =>
      LET n == Len(events[t]) IN
      /\ Done(t) /\ frame[t].outcome = "response" /\ frame[t].error = 0
      /\ frame[t].response \in StatusCodes
      /\ Kind(events[t][n - 2]) = "transport" /\ events[t][n - 2][4] = 0
      /\ events[t][n - 1] = Ev("info_response", frame[t].method, frame[t].response, 0)
      /\ Kind(events[t][n]) = "track_request"
      /\ events[t][n][3] = frame[t].response
      /\ CountKind(events[t], "info_response") = 1
      /\ Len(Requests(t)) = 1
      /\ CountKind(events[t], "error_open") = 0

C9_Witness ==
  \E t \in Threads :
    /\ Done(t) /\ frame[t].outcome = "response" /\ frame[t].response = 500
    /\ Attempts(t) = 1 /\ fetcher[t].max_retries = 3

\* C10: the attempt counter belongs to the invocation: in every invocation,
\* the first as well as a later one, it counts the attempts of that
\* invocation only, so an invocation that raises has made max_retries
\* attempts of its own, and one whose first attempt succeeds has made one
\* attempt, sent no track_retry and measured its elapsed time from its own
\* start.
C10_CounterPerInvocation ==
  \A t \in Threads :
    frame[t].calls >= 1 =>
      /\ frame[t].attempt = Attempts(t)
      /\ Attempts(t) <= fetcher[t].max_retries
      /\ frame[t].start_time = events[t][1][3]
      /\ (Done(t) /\ frame[t].outcome = "raise") =>
            Attempts(t) = fetcher[t].max_retries
      /\ ( /\ Done(t) /\ frame[t].outcome = "response"
           /\ CountKind(events[t], "error_attempt") = 0 ) =>
            /\ Attempts(t) = 1
            /\ CountKind(events[t], "track_retry") = 0
            /\ Last(events[t])[4] <= now - events[t][1][3]

\* a second invocation, started later than the first, that succeeded at once
C10_Witness ==
  \E t \in Threads :
    /\ frame[t].calls = 2 /\ Done(t) /\ frame[t].outcome = "response"
    /\ Attempts(t) = 1 /\ events[t][1][3] > 0

\* C11 (as claimed): in every invocation, whatever its outcome, the transport
\* has been invoked as many times as attempts were made.
C11_TransportOncePerAttempt ==
  \A t \in Threads : Len(TransportEvents(t)) = Attempts(t)

\* C11 (amended): the transport is invoked at most once per attempt and only
\* by the breaker's call of that attempt; it is invoked on every attempt
\* except one that the open breaker rejects, which is the last: the number
\* of transport invocations is the number of attempts, or one less when the
\* invocation ended by such a rejection.
C11_TransportOncePerAdmittedAttempt ==
  \A t \in Threads :
    LET T == TransportEvents(t) IN
    /\ \A i \in 1..Len(T) : T[i][3] = i
    /\ \A i \in 1..Len(events[t]) :
         Kind(events[t][i]) = "transport" =>
           events[t][i - 1] = Ev("call", frame[t].method, events[t][i][3], 0)
    /\ \/ Len(T) = Attempts(t)
       \/ /\ Len(T) = Attempts(t) - 1
          /\ Done(t) /\ frame[t].outcome = "none"
          /\ CountKind(events[t], "error_open") = 1
    /\ (Done(t) /\ frame[t].outcome \in {"response", "raise"}) =>
          Len(T) = Attempts(t)

\* an invocation on an open breaker: one attempt, the transport never reached
C11_Witness ==
  \E t \in Threads :
    /\ Done(t) /\ frame[t].outcome = "none"
    /\ Attempts(t) = 1 /\ Len(TransportEvents(t)) = 0

\* the thread has executed line 26 for an instance of its own
Stored(t) ==
  /\ frame[t].breaker # NoBreaker
  /\ frame[t].pc \notin {"idle", "gcb_check", "gcb_create", "gcb_store"}

\* C12 (as claimed): a label is registered iff it has been requested (a
\* completed get_circuit_breaker call names it), and the instance stored for
\* a label stays the one mapped to it: it is never removed or replaced.
C12_EntriesNeverReplaced ==
  /\ \A l \in Labels :
       registry[l] # NoBreaker => \E t \in Threads : fetcher[t].label = l
  /\ \A t \in Threads :
       /\ Constructed(t) => registry[fetcher[t].label] # NoBreaker
       /\ Stored(t) => registry[fetcher[t].label] = frame[t].breaker

\* C13: an invocation raises only on its last allowed attempt.  A failed
\* attempt k < max_retries (the `except Exception` handler ran) is not
\* propagated: its error log is followed by the sleep of 2^k, and whatever
\* follows that is attempt k + 1.  An invocation that has raised made exactly
\* max_retries attempts, and raised the error of attempt max_retries.
C13_RaisesOnlyOnFinalAttempt ==
  \A t \in Threads :
    LET n == Len(events[t])
        N == fetcher[t].max_retries IN
    /\ \A i \in 1..n :
         Kind(events[t][i]) = "error_attempt" =>
           LET k == events[t][i][3] IN
           IF k < N
           THEN /\ i < n
                /\ events[t][i + 1] = Ev("sleep", frame[t].method, 2 ^ k, k)
                /\ i + 1 = n => (~Done(t) /\ frame[t].attempt = k)
                /\ i + 1 < n => \E j \in (i + 2)..n :
                                  events[t][j] = Ev("call", frame[t].method, k + 1, 0)
           ELSE /\ k = N /\ i = n
                /\ Done(t) /\ frame[t].outcome = "raise"
    /\ frame[t].outcome = "raise" =>
         /\ Done(t)
         /\ Attempts(t) = N
         /\ frame[t].error = N
         /\ events[t][n] = Ev("error_attempt", frame[t].method, N, 0)
         /\ Len(TransportEvents(t)) = N
         /\ TransportEvents(t)[N][4] = 1

C13_Witness ==
  \E t \in Threads :
    /\ Done(t) /\ frame[t].outcome = "raise"
    /\ fetcher[t].max_retries = 3 /\ frame[t].error = 3
    /\ Len(SleepEvents(t)) = 2

\* position of the last sleep among the events (0: none)
LastSleepAt(t) ==
  LET S == {i \in 1..Len(events[t]) : Kind(events[t][i]) = "sleep"}
  IN IF S = {} THEN 0 ELSE CHOOSE i \in S : \A j \in S : j <= i

\* C14: the attempts of one invocation are sequential and ordered.  The call
\* events are attempts 1, 2, ... in order, one at a time; a failed attempt
\* k < max_retries is followed, in this order, by its error log, the sleep
\* of 2^k, the track_retry of attempt k + 1 and the breaker's call of attempt
\* k + 1; and nothing of attempt k + 1 happens before the sleep has lasted
\* its delay.
C14_AttemptsSequential ==
  \A t \in Threads :
    LET n == Len(events[t])
        m == frame[t].method
        C == Filter(events[t], "call") IN
    /\ \A i \in 1..Len(C) : C[i][3] = i
    /\ \A i \in 1..n :
         (Kind(events[t][i]) = "error_attempt" /\ events[t][i][3] < fetcher[t].max_retries) =>
           LET k == events[t][i][3] IN
           /\ Kind(events[t][i - 1]) = "transport" /\ events[t][i - 1][3] = k
           /\ n >= i + 1 /\ events[t][i + 1] = Ev("sleep", m, 2 ^ k, k)
           /\ n >= i + 2 => events[t][i + 2] = Ev("track_retry", m, k + 1, 0)
           /\ n >= i + 3 => events[t][i + 3] = Ev("call", m, k + 1, 0)
    /\ LastSleepAt(t) > 0 =>
         /\ frame[t].wake_at >= frame[t].start_time + Sum(SleepDurations(t))
         /\ (LastSleepAt(t) < n \/ frame[t].pc \notin {"get_sleep", "post_sleep"}) =>
              now >= frame[t].wake_at

\* attempt 3 under way after two failed attempts and their sleeps
C14_Witness ==
  \E t \in Threads :
    /\ Len(SleepEvents(t)) = 2 /\ Attempts(t) = 3
    /\ now >= frame[t].start_time + 6

\* C15: track_retry is sent at the start of every attempt after the first,
\* before the breaker is consulted, and never for attempt 1: the breaker
\* call of attempt k > 1 is immediately preceded by track_retry of attempt
\* k, that of attempt 1 by the entry log, and there are (attempts - 1)
\* track_retry events whatever became of the attempts (rejected, failed or
\* answered).
C15_RetryMetricPerLaterAttempt ==
  \A t \in Threads :
    LET n == Len(events[t])
        m == frame[t].method IN
    /\ Len(RetryEventsOf(t)) = (IF Attempts(t) = 0 THEN 0 ELSE Attempts(t) - 1)
    /\ \A i \in 1..n :
         /\ Kind(events[t][i]) = "call" =>
              IF events[t][i][3] = 1
              THEN i = 2 /\ Kind(events[t][1]) = "info_fetch"
              ELSE events[t][i - 1] = Ev("track_retry", m, events[t][i][3], 0)
         /\ Kind(events[t][i]) = "track_retry" =>
              /\ events[t][i][3] > 1
              /\ i < n /\ events[t][i + 1] = Ev("call", m, events[t][i][3], 0)

\* a second attempt that the breaker rejected without calling the transport
C15_Witness ==
  \E t \in Threads :
    /\ Done(t) /\ CountKind(events[t], "error_open") = 1
    /\ Attempts(t) = 2 /\ Len(TransportEvents(t)) = 1
    /\ Len(RetryEventsOf(t)) = 1

\* C16: a received response never counts as a breaker failure: while the
\* transport answers every call with status 500 and never raises, every
\* breaker stays closed with no failure counted, no invocation is rejected
\* as breaker-open, and every invocation that makes an attempt returns the
\* 500 response on its first attempt.
C16_ResponsesKeepBreakerClosed ==
  /\ \A b \in DOMAIN breakers :
       breakers[b].state = "closed" /\ breakers[b].fail_counter = 0
  /\ \A t \in Threads :
       /\ CountKind(events[t], "error_open") = 0
       /\ (Done(t) /\ fetcher[t].max_retries >= 1) =>
            /\ frame[t].outcome = "response" /\ frame[t].response = 500
            /\ Attempts(t) = 1 /\ Len(TransportEvents(t)) = 1

\* the second invocation in a row answered 500, on a breaker with fail_max = 1
C16_Witness ==
  \E t \in Threads :
    /\ Done(t) /\ frame[t].calls = 2
    /\ frame[t].outcome = "response" /\ frame[t].response = 500
    /\ Constructed(t) /\ Breaker(t).fail_max = 1

\* C17: with max_retries >= 1 an invocation sends at most one track_request:
\* none while it runs, exactly one when it returns (the received status and
\* the elapsed time for a response, (method, 500, 0) for a breaker
\* rejection), and none when it raises after its last attempt.
C17_AtMostOneRequestMetric ==
  \A t \in Threads :
    (fetcher[t].max_retries >= 1 /\ frame[t].method # Absent) =>
      LET m == frame[t].method
          R == Requests(t) IN
      /\ Len(R) <= 1
      /\ ~Done(t) => Len(R) = 0
      /\ Done(t) =>
           /\ frame[t].outcome \in {"response", "none", "raise"}
           /\ frame[t].outcome = "response" =>
                /\ Len(R) = 1 /\ R[1][2] = m /\ R[1][3] = frame[t].response
                /\ R[1][4] >= Sum(SleepDurations(t))
                /\ R[1][4] <= now - frame[t].start_time
                /\ Last(events[t]) = R[1]
           /\ frame[t].outcome = "none" =>
                R = <<Ev("track_request", m, SyntheticStatus, 0)>>
           /\ frame[t].outcome = "raise" => Len(R) = 0

\* a second invocation that retried and raised, having sent no track_request
C17_Witness ==
  \E t \in Threads :
    /\ Done(t) /\ Attempts(t) >= 2
    /\ frame[t].outcome = "raise" /\ Requests(t) = <<>>
    /\ frame[t].calls = 2

InLoop(t) == frame[t].pc \in {"get_loop", "post_loop"}
Running(t) == InLoop(t) \/ frame[t].pc \in {"get_sleep", "post_sleep"}

\* the attempt counter counts the breaker calls and stays within max_retries;
\* the sleeps are fewer than the attempts allowed (none when none is allowed)
C18_Bounded ==
  \A t \in Threads :
    frame[t].method # Absent =>
      /\ frame[t].attempt = Attempts(t)
      /\ frame[t].attempt <= fetcher[t].max_retries
      /\ Len(SleepEvents(t)) <=
           (IF fetcher[t].max_retries = 0 THEN 0 ELSE fetcher[t].max_retries - 1)

\* the counter changes only by the reset on entry and by the +1 of an
\* iteration, and every iteration adds 1
C18_CounterStep ==
  \A t \in Threads :
    /\ frame'[t].attempt # frame[t].attempt =>
         \/ InLoop(t) /\ frame'[t].attempt = frame[t].attempt + 1
         \/ frame[t].pc \in {"ready", "done"} /\ InLoop(t)' /\ frame'[t].attempt = 0
    /\ (InLoop(t) /\ LoopContinues(t) /\ frame'[t] # frame[t]) =>
         /\ frame'[t].attempt = frame[t].attempt + 1
         /\ Attempts(t)' = Attempts(t) + 1

SawFailure(t) ==
  \E i \in 1..Len(events[t]) :
    Kind(events[t][i]) = "transport" /\ events[t][i][4] = 1

\* distinct labels never share an instance, in the registry or in the Fetchers
C19_DistinctInstances ==
  /\ \A l, k \in Labels :
       (l # k /\ registry[l] # NoBreaker) => registry[l] # registry[k]
  /\ \A t, u \in Threads :
       (Constructed(t) /\ Constructed(u) /\ fetcher[t].label # fetcher[u].label) =>
         fetcher[t].circuit_breaker # fetcher[u].circuit_breaker
  /\ \A u \in Threads :
       CountKind(events[u], "error_open") > 0 =>
         \E t \in Threads : fetcher[t].label = fetcher[u].label /\ SawFailure(t)

\* a step changes the breaker of a Fetcher only if it is an attempt made
\* through a Fetcher of the same label
C19_OwnLabelOnly ==
  \A u \in Threads :
    (Constructed(u) /\
     breakers'[fetcher[u].circuit_breaker] # breakers[fetcher[u].circuit_breaker]) =>
      \E t \in Threads :
        /\ fetcher[t].label = fetcher[u].label
        /\ InLoop(t) /\ events'[t] # events[t]

\* C19: breaker state is partitioned by label: distinct labels have distinct
\* instances, invocations through label A leave the breaker of every other
\* label unchanged, and an invocation on label B is rejected as breaker-open
\* only after a failure on label B.
C19_PartitionedByLabel ==
  /\ []C19_DistinctInstances
  /\ [][C19_OwnLabelOnly]_vars

\* one label's breaker was opened by failures, and an invocation on the other
\* label that started no earlier was answered, its breaker still fresh
C19_Witness ==
  \E t, u \in Threads :
    /\ Constructed(t) /\ Constructed(u) /\ fetcher[t].label # fetcher[u].label
    /\ Done(t) /\ Breaker(t).state = "open" /\ SawFailure(t)
    /\ Done(u) /\ frame[u].outcome = "response" /\ Fresh(Breaker(u))
    /\ frame[u].start_time >= Breaker(t).opened_at

\* an event without its method tag
Untag(s) == [i \in 1..Len(s) |-> <<s[i][1], s[i][3], s[i][4]>>]

\* everything an invocation keeps, but the method tag and the place's prefix
Untagged(t) ==
  [pc |-> PcClass(frame[t].pc), attempt |-> frame[t].attempt,
   start_time |-> frame[t].start_time, wake_at |-> frame[t].wake_at,
   outcome |-> frame[t].outcome, response |-> frame[t].response,
   error |-> frame[t].error, calls |-> frame[t].calls,
   entry_fresh |-> frame[t].entry_fresh, events |-> Untag(events[t])]

\* where t1 was one step ago
PreviousPos ==
  LET f == frame["t1"] IN
  CASE f.pc = "get_loop" /\ f.attempt = 0 -> {<<f.calls - 1, c, a>> : c \in {"ready", "done"}, a \in 0..MaxRetries}
    [] f.pc = "get_loop" /\ f.attempt > 0 -> {<<f.calls, "sleep", f.attempt>>}
    [] f.pc = "get_sleep" -> {<<f.calls, "loop", f.attempt - 1>>}
    [] f.pc = "done" -> {<<f.calls, "loop", IF Attempts("t1") = 0 THEN 0 ELSE f.attempt - 1>>}
    [] OTHER -> {}

\* C20: get and post are one state machine: started from equal breaker
\* states with the same max_retries and fed the same transport outcomes
\* attempt by attempt, post does at every step what get did: the same
\* attempts, sleeps, log and metric events, outcome and breaker state,
\* the method tag apart.
C20_GetPostSameMachine ==
  (frame["t1"].method = "GET" /\ Constructed("t2")) =>
    IF InStep
    THEN /\ frame["t2"].method = "POST"
         /\ Untagged("t2") = Untagged("t1")
         /\ \A i \in 1..Len(events["t1"]) :
              events["t1"][i][2] = "GET" /\ events["t2"][i][2] = "POST"
         /\ Breaker("t2") = Breaker("t1")
    ELSE Pos("t2") \in PreviousPos

\* get and post both retried, were then rejected by their breakers and
\* returned None, with equal events
C20_Witness ==
  /\ InStep /\ Done("t1") /\ Done("t2")
  /\ frame["t1"].method = "GET" /\ frame["t2"].method = "POST"
  /\ frame["t2"].outcome = "none" /\ Attempts("t2") = 2
  /\ Len(SleepEvents("t2")) = 1 /\ Len(Requests("t2")) = 1
  /\ Untag(events["t2"]) = Untag(events["t1"])

====
